---- MODULE Spec2Model ----
(***************************************************************************)
(* A model of the two variants of the U.S. Code citation extractor:        *)
(*   v27 = US_Code_Citations_from_URLs_2024-11-27.py                        *)
(*   v28 = US_Code_Citations_from_URLs_2024-11-28.py                        *)
(* A text is a sequence of characters, a character a one-element string    *)
(* (the two typographic dashes, which are not ASCII, carry a name).        *)
(***************************************************************************)
EXTENDS Integers, Sequences, FiniteSets, TLC

VARIABLES
    variant,    \* "v27" or "v28": which of the two scripts runs
    urls,       \* the list of URLs the loop iterates over
    i,          \* 1-based position of the URL being processed
    pc,         \* the position of the control in the script
    retries,    \* what is left of Retry(total=5) inside the current download_pdf
    fs,         \* the local files: path -> document
    text,       \* the local `text`
    citations,  \* the local `citations`
    match,      \* the span get_context is given: <<start, end>>, or NoMatch
    context,    \* what get_context returned
    results,    \* the list `results`
    outFile,    \* the CSV written at the end (header and rows), or NoFile
    raw,        \* the text normalize_text was last given
    hist        \* history of the run: calls and attempts per URL (not program state)

vars == <<variant, urls, i, pc, retries, fs, text, citations, match, context,
          results, outFile, raw, hist>>

----------------------------------------------------------------------------
(* Characters and the classes Python's re gives them.                      *)

EmDash == "<em-dash>"
EnDash == "<en-dash>"

Digit == {"0", "1", "2", "3", "4", "5", "6", "7", "8", "9"}

Letter ==
    {"a", "b", "c", "d", "e", "f", "g", "h", "i", "j", "k", "l", "m", "n", "o",
     "p", "q", "r", "s", "t", "u", "v", "w", "x", "y", "z",
     "A", "B", "C", "D", "E", "F", "G", "H", "I", "J", "K", "L", "M", "N", "O",
     "P", "Q", "R", "S", "T", "U", "V", "W", "X", "Y", "Z"}

\* \w of a str pattern: alphanumerics and the underscore
WordChar == Letter \cup Digit \cup {"_"}

\* \s of a str pattern, and what str.strip() removes
Whitespace == {" ", "\t", "\n", "\r", "\f"}

----------------------------------------------------------------------------
(* Regular expressions, matched the way Python's backtracking matcher does: *)
(* alternatives in the order written, repetitions greedy.                   *)

Cls(s) == [k |-> "cls", s |-> s]
Lit(c) == [k |-> "cls", s |-> {c}]
WordBoundary == [k |-> "wb"]
Cat(rs) == [k |-> "cat", rs |-> rs]
Alt(rs) == [k |-> "alt", rs |-> rs]
\* r{lo,hi}, greedy; hi = -1 stands for no upper limit
Rep(r, lo, hi) == [k |-> "rep", r |-> r, lo |-> lo, hi |-> hi]
Star(r) == Rep(r, 0, -1)
Plus(r) == Rep(r, 1, -1)
Opt(r) == Rep(r, 0, 1)
\* a literal string: its characters one after the other
Str(cs) == Cat([j \in 1..Len(cs) |-> Lit(cs[j])])

\* "no match": not an offset
NoEnd == 0 - 1

\* \b at offset p of t: exactly one side of p is a word character
IsWordBoundary(t, p) ==
    LET before == p >= 1 /\ t[p] \in WordChar
        after == p < Len(t) /\ t[p + 1] \in WordChar
    IN  before # after

\* The end offset of the first match (in backtracking order) of the
\* concatenation of the expressions in `stack` that starts at offset p of t,
\* or NoEnd.  Offsets are Python's: p characters precede offset p.
RECURSIVE MatchEnd(_, _, _)
MatchEnd(stack, t, p) ==
    IF stack = <<>> THEN p
    ELSE
      LET r == Head(stack)
          rest == Tail(stack)
      IN  CASE r.k = "cls" ->
                 IF p < Len(t) /\ t[p + 1] \in r.s
                 THEN MatchEnd(rest, t, p + 1) ELSE NoEnd
            [] r.k = "wb" ->
                 IF IsWordBoundary(t, p) THEN MatchEnd(rest, t, p) ELSE NoEnd
            [] r.k = "cat" -> MatchEnd(r.rs \o rest, t, p)
            [] r.k = "alt" ->
                 IF r.rs = <<>> THEN NoEnd
                 ELSE LET first == MatchEnd(<<Head(r.rs)>> \o rest, t, p)
                      IN  IF first # NoEnd THEN first
                          ELSE MatchEnd(<<Alt(Tail(r.rs))>> \o rest, t, p)
            [] r.k = "rep" ->
                 LET more == IF r.hi = 0 THEN NoEnd
                             ELSE MatchEnd(
                                   <<r.r, Rep(r.r,
                                              IF r.lo > 0 THEN r.lo - 1 ELSE 0,
                                              IF r.hi > 0 THEN r.hi - 1 ELSE r.hi)>>
                                   \o rest, t, p)
                 IN  IF more # NoEnd THEN more
                     ELSE IF r.lo = 0 THEN MatchEnd(rest, t, p) ELSE NoEnd

\* re.search(pattern, t) from offset p on: the leftmost match as <<start, end>>
NoMatch == <<>>

RECURSIVE search(_, _, _)
search(re, t, p) ==
    IF p > Len(t) THEN NoMatch
    ELSE LET e == MatchEnd(<<re>>, t, p)
         IN  IF e # NoEnd THEN <<p, e>> ELSE search(re, t, p + 1)

\* The spans re.findall / re.finditer report: the leftmost match, then the
\* leftmost match that starts at or after its end, and so on.
RECURSIVE finditer(_, _, _)
finditer(re, t, p) ==
    LET m == search(re, t, p)
    IN  IF m = NoMatch THEN <<>>
        ELSE <<m>> \o finditer(re, t, IF m[2] > m[1] THEN m[2] ELSE m[2] + 1)

\* An index of a Python slice of a text of length n: a negative one counts
\* from the end, and both kinds are clipped to 0..n
SliceIndex(a, n) ==
    LET b == IF a < 0 THEN a + n ELSE a
    IN  IF b < 0 THEN 0 ELSE IF b > n THEN n ELSE b

\* t[a:b]
Slice(t, a, b) == SubSeq(t, SliceIndex(a, Len(t)) + 1, SliceIndex(b, Len(t)))

\* re.findall of a pattern without capturing groups: the matched substrings
findall(re, t) ==
    LET spans == finditer(re, t, 0)
    IN  [j \in 1..Len(spans) |-> Slice(t, spans[j][1], spans[j][2])]

\* str.strip(): the text without its leading and trailing whitespace
RECURSIVE lstrip(_)
lstrip(t) == IF t # <<>> /\ Head(t) \in Whitespace THEN lstrip(Tail(t)) ELSE t

RECURSIVE rstrip(_)
rstrip(t) ==
    IF t # <<>> /\ t[Len(t)] \in Whitespace
    THEN rstrip(SubSeq(t, 1, Len(t) - 1)) ELSE t

strip(t) == rstrip(lstrip(t))

----------------------------------------------------------------------------
(* find_us_code_citations, 2024-11-27                                      *)

sp == Cls(Whitespace)
dg == Cls(Digit)
wd == Cls(WordChar)

UnitedStatesCode ==
    Cat(<<Str(<<"U", "n", "i", "t", "e", "d">>), sp,
          Str(<<"S", "t", "a", "t", "e", "s">>), sp,
          Str(<<"C", "o", "d", "e">>)>>)

\* (faulty variant) no comma after the title number
OfTitle_noComma ==
    Cat(<<sp, Str(<<"o", "f">>), sp, Str(<<"t", "i", "t", "l", "e">>), sp,
          Plus(dg), sp, UnitedStatesCode>>)

OfTitle ==
    Cat(<<sp, Str(<<"o", "f">>), sp, Str(<<"t", "i", "t", "l", "e">>), sp,
          Plus(dg), Lit(","), sp, UnitedStatesCode>>)

\* (faulty variant) the second form written USC?, its C optional
LeadIns_27_optionalC ==
    <<Cat(<<Rep(dg, 1, 2), sp, Str(<<"U", ".", "S", ".", "C", ".">>)>>),
      Cat(<<Rep(dg, 1, 2), sp, Str(<<"U", "S">>), Opt(Lit("C"))>>)>>

\* the seven lead-in forms, in the order of the alternation
LeadIns_27 ==
    <<Cat(<<Rep(dg, 1, 2), sp, Str(<<"U", ".", "S", ".", "C", ".">>)>>),
      Cat(<<Rep(dg, 1, 2), sp, Str(<<"U", "S", "C">>)>>),
      Cat(<<Rep(dg, 1, 2), sp, Str(<<"U", ".", "S", ".">>), sp,
            Str(<<"C", "o", "d", "e">>)>>),
      Cat(<<Rep(dg, 1, 2), sp, Str(<<"U", ".", "S", ".">>), sp,
            Str(<<"C", ".">>)>>),
      Cat(<<Rep(dg, 1, 2), sp, Str(<<"U", "S">>), sp,
            Str(<<"C", "o", "d", "e">>)>>),
      Cat(<<Str(<<"c", "h", "a", "p", "t", "e", "r">>), sp, Plus(dg), OfTitle>>),
      Cat(<<Plus(dg), Plus(wd), OfTitle>>)>>

\* r'\b(?:...)\s?' r'[\d\w\-\–]*\b'
pattern_27 ==
    Cat(<<WordBoundary, Alt(LeadIns_27), Opt(sp),
          Star(Cls(Digit \cup WordChar \cup {"-", EnDash})), WordBoundary>>)

\* (faulty variant) each citation string is kept once: list(dict.fromkeys(...))
RECURSIVE Dedup(_)
Dedup(xs) ==
    IF xs = <<>> THEN <<>>
    ELSE LET init == Dedup(SubSeq(xs, 1, Len(xs) - 1))
             x == xs[Len(xs)]
         IN  IF \E j \in 1..Len(init) : init[j] = x THEN init
             ELSE Append(init, x)

find_us_code_citations_27_dedup(t) == Dedup(findall(pattern_27, t))

find_us_code_citations_27(t) == findall(pattern_27, t)

----------------------------------------------------------------------------
(* normalize_text, find_us_code_citations, get_context, 2024-11-28         *)

\* (faulty variant) exactly one whitespace character on each side of the
\* lead-in
pattern_28_oneSpace ==
    Cat(<<Plus(dg), sp, Str(<<"U", ".", "S", ".", "C", ".">>), sp,
          Plus(dg), Star(Cls({"-", ","} \cup Digit \cup Letter))>>)

\* r"(?:\d+)\s*U\.S\.C\.\s*(?:\d+[-,0-9a-zA-Z]*)"
pattern_28 ==
    Cat(<<Plus(dg), Star(sp), Str(<<"U", ".", "S", ".", "C", ".">>), Star(sp),
          Plus(dg), Star(Cls({"-", ","} \cup Digit \cup Letter))>>)

\* re.sub(re, repl, t): t with every match of re, found as by finditer,
\* replaced by repl; `from` is the end of the previous match
RECURSIVE SubFrom(_, _, _, _, _)
SubFrom(spans, j, repl, t, from) ==
    IF j > Len(spans) THEN Slice(t, from, Len(t))
    ELSE Slice(t, from, spans[j][1]) \o repl
         \o SubFrom(spans, j + 1, repl, t, spans[j][2])

sub(re, repl, t) == SubFrom(finditer(re, t, 0), 1, repl, t, 0)

\* str.replace(old, new) for a one-character old
replace(t, old, new) ==
    [j \in 1..Len(t) |-> IF t[j] = old THEN new ELSE t[j]]

\* (faulty variant) r"\s" for r"\s+": every whitespace character becomes a blank
normalize_text_each(t) == replace(sub(sp, <<" ">>, t), EmDash, "-")

\* re.sub(r"\s+", " ", text), then text.replace(em-dash, "-")
normalize_text(t) == replace(sub(Plus(sp), <<" ">>, t), EmDash, "-")

find_us_code_citations_28(t) ==
    LET found == findall(pattern_28, t)
    IN  [j \in 1..Len(found) |-> strip(found[j])]

find_us_code_citations(v, t) ==
    IF v = "v27" THEN find_us_code_citations_27(t)
    ELSE find_us_code_citations_28(t)

context_length == 40

\* (faulty variant) the start of the window is not clipped at 0: a negative start
\* of a slice counts from the end of the text
get_context_unclipped(t, m) ==
    LET start_idx == m[1] - 40
        end_idx == IF m[2] + 40 < Len(t) THEN m[2] + 40 ELSE Len(t)
    IN  strip(Slice(t, start_idx, end_idx))

\* get_context(text, match): match is <<match.start(), match.end()>>
get_context(t, m) ==
    LET start_idx == IF m[1] - context_length > 0
                     THEN m[1] - context_length ELSE 0
        end_idx == IF m[2] + context_length < Len(t)
                   THEN m[2] + context_length ELSE Len(t)
    IN  strip(Slice(t, start_idx, end_idx))

\* re.escape(citation): the pattern that matches the citation literally
escape(c) == Str(c)

----------------------------------------------------------------------------
(* The remote documents and the local files.                               *)

\* A page: page.extract_text() either returns its text or raises.
Page(t) == [ok |-> TRUE, txt |-> t]
PageError == [ok |-> FALSE, txt |-> <<>>]

\* A document (the bytes of a response): whether the PDF library can open
\* it, and its pages.
Doc(pages) == [opens |-> TRUE, pages |-> pages]
NotAPdf == [opens |-> FALSE, pages |-> <<>>]

\* a file that open(filename, "wb") created or emptied and that the failed
\* write left short
Truncated == [opens |-> FALSE, pages |-> <<>>, cut |-> TRUE]

\* the text read until the first page that raises, pages appended one to
\* the other (text += page.extract_text() inside the try; return text after it)
RECURSIVE PagesUntilError(_, _)
PagesUntilError(pages, j) ==
    IF j > Len(pages) \/ ~pages[j].ok THEN <<>>
    ELSE pages[j].txt \o PagesUntilError(pages, j + 1)

\* " ".join(texts)
RECURSIVE join(_, _)
join(sep, ts) ==
    IF ts = <<>> THEN <<>>
    ELSE IF Len(ts) = 1 THEN ts[1]
    ELSE ts[1] \o sep \o join(sep, Tail(ts))

\* [page.extract_text() for page in pdf.pages if page.extract_text()]
RECURSIVE NonEmptyTexts(_, _)
NonEmptyTexts(pages, j) ==
    IF j > Len(pages) THEN <<>>
    ELSE IF pages[j].txt = <<>> THEN NonEmptyTexts(pages, j + 1)
    ELSE <<pages[j].txt>> \o NonEmptyTexts(pages, j + 1)

\* whether extraction of the file at path hits an error: no such file, a file
\* the library cannot open, or a page whose extract_text() raises
ExtractionFails(files, path) ==
    \/ path \notin DOMAIN files
    \/ ~files[path].opens
    \/ \E j \in 1..Len(files[path].pages) : ~files[path].pages[j].ok

extract_text_from_pdf_27(files, path) ==
    IF path \notin DOMAIN files \/ ~files[path].opens THEN <<>>
    ELSE PagesUntilError(files[path].pages, 1)

extract_text_from_pdf_28(files, path) ==
    IF ExtractionFails(files, path) THEN <<>>
    ELSE join(<<" ">>, NonEmptyTexts(files[path].pages, 1))

extract_text_from_pdf(v, files, path) ==
    IF v = "v27" THEN extract_text_from_pdf_27(files, path)
    ELSE extract_text_from_pdf_28(files, path)

----------------------------------------------------------------------------
(* download_pdf: the outcomes of one HTTP attempt and what Retry makes of   *)
(* them.                                                                   *)

Status(code) == [kind |-> "status", code |-> code]
Timeout == [kind |-> "Timeout", code |-> 0]
ConnectionError == [kind |-> "ConnectionError", code |-> 0]
NoOutcome == [kind |-> "none", code |-> 0]

\* (faulty variant) a larger retry budget
RetryTotal_more == 5 + 2

\* Retry(total=5, ...)
RetryTotal == 5

\* Retry(..., status_forcelist=[429, 500, 502, 503, 504])
status_forcelist == {429, 500, 502, 503, 504}

\* (faulty variant) every failed attempt is retried, whatever its status
IsRetryable_anyError(o) == o.kind # "status" \/ o.code >= 400

\* whether the adapter retries after this outcome while retries are left:
\* a connection error, a timeout, or a status of the force list
IsRetryable(o) ==
    \/ o.kind \in {"Timeout", "ConnectionError"}
    \/ o.kind = "status" /\ o.code \in status_forcelist

\* response.raise_for_status(): 4xx and 5xx raise HTTPError
RaisesForStatus(code) == code >= 400

\* What an escaping exception of the given class makes of the call:
\* "False" (caught, return False) or "raised" (it leaves download_pdf).
\* 2024-11-27 catches (Timeout, ConnectionError) and then Exception.
OnException_27(cls) == "False"

\* 2024-11-28 catches requests.exceptions.RequestException only.
OnException_28(cls) ==
    IF cls \in {"RetryError", "ConnectionError", "Timeout", "HTTPError"}
    THEN "False" ELSE "raised"

OnException(v, cls) ==
    IF v = "v27" THEN OnException_27(cls) ELSE OnException_28(cls)

\* time.sleep(10) in the clause `except (Timeout, ConnectionError)` of
\* 2024-11-27: the seconds download_pdf waits when it handles cls
error_wait(v, cls) ==
    IF v = "v27" /\ cls \in {"Timeout", "ConnectionError"} THEN 10 ELSE 0

\* the exception session.get raises once the retries are used up
ExhaustedException(o) ==
    IF o.kind = "status" THEN "RetryError" ELSE "ConnectionError"

----------------------------------------------------------------------------
(* The loop over the URLs.                                                 *)

\* url.split("/")[-1] and os.path.basename(url): a URL is the sequence of
\* its parts between the slashes
filename(url) == url[Len(url)]

\* the path download_pdf and extract_text_from_pdf are given
filepath_27(url) == <<filename(url)>>
filepath_28(url) == <<"downloads", filename(url)>>
filepath(v, url) == IF v = "v27" THEN filepath_27(url) ELSE filepath_28(url)

\* (faulty variant) a delay may be shorter than the lower end of the range
uniform_from_zero(a, b) == 0..b

\* random.uniform(a, b), in whole seconds
uniform(a, b) == a..b

\* (faulty variant) the loop ends before the last URL
ListExhausted_early(k, us) == k >= Len(us)

\* `for url in urls:` - no URL is left when k - 1 of them have been taken
ListExhausted(k, us) == k > Len(us)

\* (faulty variant) the loop does not look at what download_pdf returned
AfterDownload_ignoresResult(returned) ==
    IF returned \in {"True", "False"} THEN "extract" ELSE "crashed"

\* (faulty variant) a failed download ends the run
AfterDownload_abortsOnFailure(returned) ==
    IF returned = "True" THEN "extract" ELSE "crashed"

\* (faulty variant) the text is matched without being extracted
AfterDownload_skipsExtract(returned) ==
    CASE returned = "True" -> "match"
      [] returned = "False" -> "sleep"
      [] OTHER -> "crashed"

\* `if download_pdf(url, filename):` - where the loop goes after the call
AfterDownload(returned) ==
    CASE returned = "True" -> "extract"
      [] returned = "False" -> "sleep"
      [] OTHER -> "crashed"

\* (faulty variant) 2024-11-28 without its `if text:`
AfterExtract_28_always(t) == "match"

\* where the loop goes after extract_text_from_pdf: 2024-11-28 has `if text:`
AfterExtract_27(t) == "match"
AfterExtract_28(t) == IF t # <<>> THEN "match" ELSE "sleep"
AfterExtract(v, t) == IF v = "v27" THEN AfterExtract_27(t) ELSE AfterExtract_28(t)

\* (faulty variant) a document without citations gets no record
Record_27_nonEmpty(url, t, cits) ==
    IF cits = <<>> THEN <<>>
    ELSE <<[filename |-> filename(url), citations |-> cits]>>

\* results.append({"filename": filename, "citations": citations})
Record_27(url, t, cits) == <<[filename |-> filename(url), citations |-> cits]>>

\* (faulty variant) the context of a row is taken around the occurrence the
\* row reports
Rows_28_each(url, t, cits, j) ==
    LET spans == finditer(pattern_28, t, 0)
    IN  [k \in 1..(Len(cits) + 1 - j) |->
            [url |-> url, citation |-> cits[k + j - 1],
             context |-> get_context(t, spans[k + j - 1])]]

\* for citation in citations: match = re.search(re.escape(citation), text);
\* if match: results.append({"url": ..., "citation": ..., "context": ...})
RECURSIVE Rows_28(_, _, _, _)
Rows_28(url, t, cits, j) ==
    IF j > Len(cits) THEN <<>>
    ELSE LET m == search(escape(cits[j]), t, 0)
         IN  (IF m # NoMatch
              THEN <<[url |-> url, citation |-> cits[j],
                      context |-> get_context(t, m)]>>
              ELSE <<>>)
             \o Rows_28(url, t, cits, j + 1)

\* (faulty variant) a citation string gets one row, however often it occurs
Record_28_dedup(url, t, cits) == Rows_28(url, t, Dedup(cits), 1)

Record_28(url, t, cits) == Rows_28(url, t, cits, 1)

Record(v, url, t, cits) ==
    IF v = "v27" THEN Record_27(url, t, cits) ELSE Record_28(url, t, cits)

\* (faulty variant) the new records go to the front of the list
append_front(rs, new) == new \o rs

\* (faulty variant) the new records take the place of the list
append_replacing(rs, new) == new

\* results.append(...): the new records go to the end of the list
append(rs, new) == rs \o new

\* pd.DataFrame(results): the columns are the keys of the records, so a
\* frame made of no record has no column
Columns(v, rs) ==
    IF rs = <<>> THEN <<>>
    ELSE IF v = "v27" THEN <<"filename", "citations">>
    ELSE <<"url", "citation", "context">>

\* df.to_csv(name, index=False): the header line, then a line per record
to_csv(v, rs) == [written |-> TRUE, header |-> Columns(v, rs), rows |-> rs]

NoFile == [written |-> FALSE, header |-> <<>>, rows |-> <<>>]

\* (faulty variant) the file is written whatever results holds
Written_28_always(rs) == to_csv("v28", rs)

\* the end of the script: 2024-11-27 always writes, 2024-11-28 `if results:`
Written_27(rs) == to_csv("v27", rs)
Written_28(rs) == IF rs # <<>> THEN to_csv("v28", rs) ELSE NoFile
Written(v, rs) == IF v = "v27" THEN Written_27(rs) ELSE Written_28(rs)

\* 2024-11-28, else: logging.warning("No citations found. No output file
\* generated.")
Warned(v, rs) == v = "v28" /\ rs = <<>>

----------------------------------------------------------------------------
(* The inputs of a run.                                                    *)

\* three URLs of the list: two with the same last part, one with an escape
Url_2022_07 == <<"https:", "", "www.fsis.usda.gov", "2022-07", "10800.1.pdf">>
Url_2021_04 == <<"https:", "", "www.fsis.usda.gov", "2021-04", "10800.1.pdf">>
Url_2020_08 == <<"https:", "", "www.fsis.usda.gov", "2020-08", "4791.6%20.pdf">>

UrlSet == {Url_2022_07, Url_2021_04, Url_2020_08}

MaxUrls == 2

\* the three URLs in the order in which the list of the script holds them
url_list == <<Url_2022_07, Url_2021_04, Url_2020_08>>

\* where the list of the script holds the URL u
IndexOf(u) == CHOOSE k \in 1..Len(url_list) : url_list[k] = u

\* the lists of at most MaxUrls URLs: like the list of the script, a list
\* holds no URL twice, and it holds its URLs in the order of the script
UrlLists ==
    {us \in UNION {[1..n -> UrlSet] : n \in 0..MaxUrls} :
        \A a, b \in 1..Len(us) : a < b => IndexOf(us[a]) < IndexOf(us[b])}

TxtCite == <<"s", "e", "e", " ", "7", " ", "U", ".", "S", ".", "C", ".", " ", "1", "3", "6">>
TxtPlain == <<"n", "o", "n", "e">>
TxtTwo == <<"7", " ", "U", ".", "S", ".", "C", ".", " ", "1", "3", "6", ";", " ", "1", "7", " ", "U", ".", "S", ".", "C", ".", " ", "1">>

\* what a server may send with status 200
Documents ==
    {Doc(<<Page(TxtCite)>>),
     Doc(<<Page(TxtPlain)>>),
     Doc(<<Page(<<>>)>>),
     Doc(<<Page(TxtCite), PageError>>),
     Doc(<<Page(TxtPlain), Page(TxtCite)>>),
     Doc(<<Page(TxtTwo)>>),
     NotAPdf}

\* the texts extract_text_from_pdf can return in a run
ExtractedTexts(v) ==
    {extract_text_from_pdf(v, <<"f">> :> d, <<"f">>) : d \in Documents}

\* (2024-11-28: text = normalize_text(text);)
\* citations = find_us_code_citations(text)
\* Both are pure functions of the text: what they give for each extracted
\* text, computed once.
matched ==
    [v \in {"v27", "v28"} |->
        [t \in ExtractedTexts(v) |->
            LET n == IF v = "v28" THEN normalize_text(t) ELSE t
            IN  [text |-> n, citations |-> find_us_code_citations(v, n)]]]

\* the texts and citations the loop can hold when it appends its records
MatchedTexts(v) ==
    {<<matched[v][t].text, matched[v][t].citations>> : t \in ExtractedTexts(v)}

\* The records appended for a URL, and (2024-11-28) the match and the context
\* the loop over the citations ends with: pure functions of the URL, the text
\* and its citations, computed once.
recorded ==
    [v \in {"v27", "v28"} |->
        [url \in UrlSet |->
            [tc \in MatchedTexts(v) |->
                LET t == tc[1]
                    cits == tc[2]
                    looped == v = "v28" /\ cits # <<>>
                    m == IF looped THEN search(escape(cits[Len(cits)]), t, 0)
                         ELSE NoMatch
                IN  [new |-> Record(v, url, t, cits),
                     looped |-> looped,
                     match |-> m,
                     context |-> IF m # NoMatch THEN get_context(t, m)
                                 ELSE <<>>]]]]

\* how one HTTP attempt may end
Outcomes ==
    {Status(200), Status(404), Status(429), Status(500), Status(502),
     Status(503), Status(504), Timeout, ConnectionError}

NoFiles == [p \in {} |-> NotAPdf]

PerUrl(us, v) == [k \in 1..Len(us) |-> v]

InitHist(us) ==
    [called |-> <<>>,             \* the URLs download_pdf was called with
     trace |-> <<>>,              \* the steps taken for the latest of them
     attempts |-> 0,              \* HTTP attempts of the current download_pdf
     raised |-> "none",           \* the exception raised inside its try
     body |-> NotAPdf,            \* the content it wrote to the file
     waited |-> 0,                \* seconds it slept in an except clause
     delay |-> 0,                 \* seconds of the time.sleep the loop has just
                                  \* made (0 once the loop has gone on)
     paced |-> PerUrl(us, 0),     \* per URL: the time.sleep calls of the loop
     last |-> NoOutcome,          \* how the latest of them ended
     fetched |-> PerUrl(us, "none"),   \* per URL: what download_pdf did
     only503 |-> PerUrl(us, TRUE),     \* per URL: every attempt answered 503
     wrote |-> PerUrl(us, FALSE),      \* per URL: download_pdf wrote the file
     extractCalls |-> PerUrl(us, 0),   \* per URL: calls of extract_text_from_pdf
     matchCalls |-> PerUrl(us, 0),     \* per URL: calls of find_us_code_citations
     rows |-> PerUrl(us, 0),           \* per URL: records appended to results
     origin |-> <<>>,             \* per record, in the order of the appends:
                                  \* the position of the URL it was made for
     textEmpty |-> PerUrl(us, FALSE),  \* per URL: the extracted text was empty
     extractFailed |-> FALSE,     \* the latest extraction hit an error
     warned |-> FALSE]            \* the warning "No citations found" was logged

\* The local files at the start of a run: none, or a file that an earlier
\* run left at the path of the first URL of the script.
FilesAtStart(v) ==
    {NoFiles, filepath(v, Url_2022_07) :> Doc(<<Page(TxtCite)>>)}

Locals ==
    /\ i = 1 /\ retries = 0 /\ fs \in FilesAtStart(variant)
    /\ text = <<>> /\ citations = <<>>
    /\ match = NoMatch /\ context = <<>> /\ results = <<>> /\ outFile = NoFile
    /\ raw = <<>>

Init ==
    /\ variant \in {"v27", "v28"}
    /\ urls \in UrlLists
    /\ pc = "loop"
    /\ hist = InitHist(urls)
    /\ Locals

----------------------------------------------------------------------------
(* The steps of a run.                                                     *)

\* for url in urls: the next URL, and the call of download_pdf
NextUrl ==
    /\ pc = "loop" /\ ~ListExhausted(i, urls)
    /\ retries' = RetryTotal
    /\ pc' = "request"
    /\ hist' = [hist EXCEPT !.called = Append(@, urls[i]),
                            !.trace = <<"fetch">>,
                            !.delay = 0]
    /\ UNCHANGED <<variant, urls, i, fs, text, citations, match, context,
                   results, outFile, raw>>

\* the loop is over
EndOfList ==
    /\ pc = "loop" /\ ListExhausted(i, urls)
    /\ pc' = "write"
    /\ hist' = [hist EXCEPT !.delay = 0]
    /\ UNCHANGED <<variant, urls, i, retries, fs, text, citations, match,
                   context, results, outFile, raw>>

\* (faulty variant) True is returned for every good response, written to the
\* file or not
Returned_trueUnwritten(v, o, writable) ==
    IF IsRetryable(o) THEN OnException(v, ExhaustedException(o))
    ELSE IF o.kind = "status" /\ RaisesForStatus(o.code)
         THEN OnException(v, "HTTPError")
    ELSE "True"

\* What download_pdf does once an attempt has ended as o and no retry
\* follows: "True", "False" or "raised".  writable: open(filename, "wb")
\* and the write succeed.
Returned(v, o, writable) ==
    IF IsRetryable(o) THEN OnException(v, ExhaustedException(o))
    ELSE IF o.kind = "status" /\ RaisesForStatus(o.code)
         THEN OnException(v, "HTTPError")
    ELSE IF writable THEN "True"
    ELSE OnException(v, "OSError")

\* how `with open(filename, "wb") as f: f.write(response.content)` may end
WriteResults == {"written", "open fails", "write fails"}

\* The exception raised inside the try of download_pdf once an attempt has
\* ended as o and no retry follows, or "none".
Raised(o, w) ==
    IF IsRetryable(o) THEN ExhaustedException(o)
    ELSE IF o.kind = "status" /\ RaisesForStatus(o.code) THEN "HTTPError"
    ELSE IF w = "written" THEN "none"
    ELSE "OSError"

\* (faulty variant) the file is opened for writing before the request is made
FilesAfter_opensFirst(files, path, o, w, doc) ==
    IF w = "open fails" THEN files
    ELSE IF Raised(o, w) = "none" THEN (path :> doc) @@ files
    ELSE (path :> Truncated) @@ files

\* The local files after download_pdf: the with statement is reached only
\* after a response that raises nothing; open creates or empties the file.
FilesAfter(files, path, o, w, doc) ==
    IF Raised(o, "written") # "none" \/ w = "open fails" THEN files
    ELSE IF w = "written" THEN (path :> doc) @@ files
    ELSE (path :> Truncated) @@ files

\* One HTTP attempt of session.get inside download_pdf, and what follows it:
\* another attempt, or the end of the call.
Attempt ==
    /\ pc = "request"
    /\ \E o \in Outcomes :
       \E doc \in (IF o = Status(200) THEN Documents ELSE {NotAPdf}) :
       \E w \in (IF o = Status(200) THEN WriteResults ELSE {"written"}) :
         LET seen == [hist EXCEPT !.attempts = @ + 1, !.last = o,
                                  !.only503[i] = @ /\ o = Status(503)]
             returned == Returned(variant, o, w = "written")
         IN  IF IsRetryable(o) /\ retries > 0
             THEN /\ retries' = retries - 1
                  /\ hist' = seen
                  /\ UNCHANGED <<pc, fs>>
             ELSE /\ fs' = FilesAfter(fs, filepath(variant, urls[i]), o, w, doc)
                  /\ hist' = [seen EXCEPT
                                !.fetched[i] = returned,
                                !.wrote[i] = (returned = "True"),
                                !.raised = Raised(o, w),
                                !.body = IF returned = "True" THEN doc
                                         ELSE NotAPdf,
                                !.waited = error_wait(variant, Raised(o, w))]
                  /\ pc' = AfterDownload(returned)
                  /\ UNCHANGED retries
    /\ UNCHANGED <<variant, urls, i, text, citations, match, context, results,
                   outFile, raw>>

\* text = extract_text_from_pdf(filename)
Extract ==
    /\ pc = "extract"
    /\ LET path == filepath(variant, urls[i])
           t == extract_text_from_pdf(variant, fs, path)
       IN  /\ text' = t
           /\ hist' = [hist EXCEPT !.trace = Append(@, "extract"),
                                   !.extractCalls[i] = @ + 1,
                                   !.textEmpty[i] = (t = <<>>),
                                   !.extractFailed = ExtractionFails(fs, path)]
           /\ pc' = AfterExtract(variant, t)
    /\ UNCHANGED <<variant, urls, i, retries, fs, citations, match, context,
                   results, outFile, raw>>

\* (2024-11-28: text = normalize_text(text);)
\* citations = find_us_code_citations(text)
Match ==
    /\ pc = "match"
    /\ text' = matched[variant][text].text
    /\ raw' = IF variant = "v28" THEN text ELSE raw
    /\ citations' = matched[variant][text].citations
    /\ hist' = [hist EXCEPT !.trace = Append(@, "match"),
                            !.matchCalls[i] = @ + 1]
    /\ pc' = "record"
    /\ UNCHANGED <<variant, urls, i, retries, fs, match, context, results,
                   outFile>>

\* the records of this URL are appended to results
Store ==
    /\ pc = "record"
    /\ LET r == recorded[variant][urls[i]][<<text, citations>>]
       IN  /\ results' = append(results, r.new)
           /\ hist' = [hist EXCEPT !.trace = Append(@, "record"),
                                   !.rows[i] = @ + Len(r.new),
                                   !.origin = @ \o [j \in 1..Len(r.new) |-> i]]
           /\ match' = IF r.looped THEN r.match ELSE match
           /\ context' = IF r.looped /\ r.match # NoMatch THEN r.context
                         ELSE context
    /\ pc' = "sleep"
    /\ UNCHANGED <<variant, urls, i, retries, fs, text, citations, outFile,
                   raw>>

\* time.sleep(random.uniform(2, 5)), the last statement of the loop body
Sleep ==
    /\ pc = "sleep"
    /\ i' = i + 1
    /\ pc' = "loop"
    /\ \E d \in uniform(2, 5) :
         hist' = [hist EXCEPT !.attempts = 0, !.last = NoOutcome,
                              !.raised = "none", !.body = NotAPdf,
                              !.waited = 0,
                              !.delay = d, !.paced[i] = @ + 1]
    /\ UNCHANGED <<variant, urls, retries, fs, text, citations, match, context,
                   results, outFile, raw>>

\* the CSV file is written (or not) and the script ends
Write ==
    /\ pc = "write"
    /\ outFile' = Written(variant, results)
    /\ hist' = [hist EXCEPT !.warned = Warned(variant, results)]
    /\ pc' = "done"
    /\ UNCHANGED <<variant, urls, i, retries, fs, text, citations, match,
                   context, results, raw>>

Next ==
    \/ NextUrl
    \/ EndOfList
    \/ Attempt
    \/ Extract
    \/ Match
    \/ Store
    \/ Sleep
    \/ Write

Spec == Init /\ [][Next]_vars

\* the script is one sequential process: while a statement is left to run,
\* one runs
FairSpec == Spec /\ WF_vars(Next)

----------------------------------------------------------------------------
(* find_us_code_citations on its own, on a bounded set of texts.           *)

DuplicateText == <<"4", "2", " ", "U", ".", "S", ".", "C", ".", " ", "1", "9", "8", "3", " ", "a", "n", "d", " ", "4", "2", " ", "U", ".", "S", ".", "C", ".", " ", "1", "9", "8", "3", " ", "a", "g", "a", "i", "n">>

ScenarioText ==
    <<"P", "u", "r", "s", "u", "a", "n", "t", " ", "t", "o", " ", "7", " ", "U", ".", "S", ".", "C", ".", " ", "1", "3", "6", " ", "a", "n", "d", " ", "c", "h", "a", "p", "t", "e", "r", " ", "5", " ", "o", "f", " ", "t", "i", "t", "l", "e", " ", "7", ",", " ", "U", "n", "i", "t", "e", "d", " ", "S", "t", "a", "t", "e", "s", " ", "C", "o", "d", "e", ",", " ", "t", "h", "e", " ", "S", "e", "c", "r", "e", "t", "a", "r", "y", " ", "s", "h", "a", "l", "l", ".", ".", ".">>

\* the section sign, a character that is neither a word character nor
\* whitespace
SectionSign == "<section-sign>"

\* a lead-in before a section sign, and a lead-in at the end of the text
SectionSignText ==
    <<"7", " ", "U", ".", "S", ".", "C", ".", " ", SectionSign, " ", "1", "3", "6">>
LeadInAtEndText == <<"s", "e", "e", " ", "7", " ", "U", ".", "S", ".", "C", ".">>

MatchChunks ==
    {<<"7", " ", "U", ".", "S", ".", "C", ".", " ", "1", "3", "6">>, <<"7", " ", "U", "S">>, <<"C", "o", "d", "e">>, <<" ">>, <<"\n">>, <<"a">>}

MaxChunks == 4

\* the texts made of at most n chunks
RECURSIVE ChunkTexts(_)
ChunkTexts(n) ==
    IF n = 0 THEN {<<>>}
    ELSE LET shorter == ChunkTexts(n - 1)
         IN  shorter \cup {t \o c : t \in shorter, c \in MatchChunks}

\* no filler at all, and several whitespace characters of several kinds,
\* between the title number, the lead-in and the section
NoFillerText == <<"s", "e", "e", " ", "7", "U", ".", "S", ".", "C", ".", "1", "3", "6", "a", ".">>
WideFillerText == <<"s", "e", "e", " ", "7", " ", "\n", " ", "U", ".", "S", ".", "C", ".", "\t", " ", " ", "1", "3", "6", "a", "-", "1", ",", " ", "e", "t", "c", ".">>

MatchTexts ==
    ChunkTexts(MaxChunks)
        \cup {DuplicateText, ScenarioText, SectionSignText, LeadInAtEndText,
              NoFillerText, WideFillerText}

InitMatch ==
    /\ variant \in {"v27", "v28"}
    /\ urls = <<>>
    /\ pc = "find"
    /\ hist = InitHist(<<>>)
    /\ i = 1 /\ retries = 0 /\ fs = NoFiles /\ citations = <<>>
    /\ match = NoMatch /\ context = <<>> /\ results = <<>> /\ outFile = NoFile
    /\ raw = <<>>
    /\ text \in MatchTexts

\* citations = find_us_code_citations(text)
ApplyFind ==
    /\ pc = "find"
    /\ citations' = find_us_code_citations(variant, text)
    /\ pc' = "found"
    /\ UNCHANGED <<variant, urls, i, retries, fs, text, match, context, results,
                   outFile, raw, hist>>

SpecMatch == InitMatch /\ [][ApplyFind]_vars

----------------------------------------------------------------------------
(* normalize_text on its own, applied twice to a bounded set of texts.     *)

NormAlphabet == {" ", "\n", "\t", EmDash, "-", "a"}

MaxNormLen == 4

NormTexts == UNION {[1..n -> NormAlphabet] : n \in 0..MaxNormLen}

InitNorm ==
    /\ variant = "v28"
    /\ urls = <<>>
    /\ pc = "normalize"
    /\ hist = InitHist(<<>>)
    /\ i = 1 /\ retries = 0 /\ fs = NoFiles /\ citations = <<>>
    /\ match = NoMatch /\ context = <<>> /\ results = <<>> /\ outFile = NoFile
    /\ raw = <<>>
    /\ text \in NormTexts

\* text = normalize_text(text), a first and a second time
ApplyNormalize ==
    /\ pc \in {"normalize", "normalized"}
    /\ raw' = text
    /\ text' = normalize_text(text)
    /\ pc' = IF pc = "normalize" THEN "normalized" ELSE "renormalized"
    /\ UNCHANGED <<variant, urls, i, retries, fs, citations, match, context,
                   results, outFile, hist>>

SpecNorm == InitNorm /\ [][ApplyNormalize]_vars

----------------------------------------------------------------------------
(* get_context on its own: a citation with up to MaxPad characters on      *)
(* either side, and the match re.search finds for it.                      *)

MaxPad == 45

\* n characters of filler, every fourth a space
Pad(n) == [j \in 1..n |-> IF j % 4 = 0 THEN " " ELSE "x"]

CtxCite == <<"7", " ", "U", ".", "S", ".", "C", ".", " ", "1", "3", "6">>

CtxTexts == {Pad(l) \o CtxCite \o Pad(r) : l, r \in 0..MaxPad}

InitCtx ==
    /\ variant = "v28"
    /\ urls = <<>>
    /\ pc = "get_context"
    /\ hist = InitHist(<<>>)
    /\ i = 1 /\ retries = 0 /\ fs = NoFiles
    /\ context = <<>> /\ results = <<>> /\ outFile = NoFile /\ raw = <<>>
    /\ text \in CtxTexts
    /\ citations = find_us_code_citations_28(text)
    /\ \E j \in 1..Len(citations) : match = search(escape(citations[j]), text, 0)

\* context = get_context(text, match)
ApplyGetContext ==
    /\ pc = "get_context"
    /\ context' = get_context(text, match)
    /\ pc' = "context"
    /\ UNCHANGED <<variant, urls, i, retries, fs, text, citations, match,
                   results, outFile, raw, hist>>

SpecCtx == InitCtx /\ [][ApplyGetContext]_vars

----------------------------------------------------------------------------
(* The body of `if text:` of 2024-11-28 on its own: one document with up   *)
(* to two citations, and fillers around them.                               *)

MaxGap == 45

\* n characters of filler that start with a space, every fourth a space
Filler(n) == [j \in 1..n |-> IF j % 4 = 1 THEN " " ELSE "x"]

\* the fillers between the two citations, and those at the ends of the text
Gaps == {0, 1, MaxGap - 6, MaxGap}
Edges == {0, 1, 5}

Cite17 == <<"1", "7", " ", "U", ".", "S", ".", "C", ".", " ", "1", "3", "6">>

RowCites == {<<>>, CtxCite, Cite17}

RowTexts ==
    {Filler(a) \o x \o Filler(b) \o y \o Filler(c) :
        a, c \in Edges, b \in Gaps, x, y \in RowCites}

InitRows ==
    /\ variant = "v28"
    /\ urls \in {<<u>> : u \in UrlSet}
    /\ pc = "match"
    /\ hist = InitHist(urls)
    /\ i = 1 /\ retries = 0 /\ fs = NoFiles /\ citations = <<>>
    /\ match = NoMatch /\ context = <<>> /\ results = <<>> /\ outFile = NoFile
    /\ raw = <<>>
    /\ text \in RowTexts

\* text = normalize_text(text); citations = find_us_code_citations(text)
ApplyMatch ==
    /\ pc = "match"
    /\ raw' = text
    /\ text' = normalize_text(text)
    /\ citations' = find_us_code_citations_28(text')
    /\ hist' = [hist EXCEPT !.matchCalls[i] = @ + 1]
    /\ pc' = "record"
    /\ UNCHANGED <<variant, urls, i, retries, fs, match, context, results,
                   outFile>>

\* for citation in citations: ... results.append({...})
ApplyRecord ==
    /\ pc = "record"
    /\ LET new == Record_28(urls[i], text, citations)
       IN  /\ results' = append(results, new)
           /\ hist' = [hist EXCEPT !.rows[i] = @ + Len(new)]
    /\ pc' = "sleep"
    /\ UNCHANGED <<variant, urls, i, retries, fs, text, citations, match,
                   context, outFile, raw>>

SpecRows == InitRows /\ [][ApplyMatch \/ ApplyRecord]_vars

----------------------------------------------------------------------------
(* Properties of the loop (checked under Spec).                            *)

Positions == 1..Len(urls)

\* C1: a URL whose download_pdf call returned False is never given to
\* extract_text_from_pdf nor to find_us_code_citations, gets no record in
\* results, and the loop is at the end of its body, from where it goes on
\* to the next URL.
C1_FailedFetchIsSkipped ==
    \A k \in Positions :
        hist.fetched[k] = "False" =>
            /\ hist.extractCalls[k] = 0
            /\ hist.matchCalls[k] = 0
            /\ hist.rows[k] = 0
            /\ k <= i
            /\ (k = i => pc = "sleep")

\* a failed fetch of the first URL, and the second URL fetched and recorded
C1_Witness ==
    /\ Len(urls) >= 2
    /\ hist.fetched[1] = "False"
    /\ hist.fetched[2] = "True"
    /\ hist.rows[2] > 0

\* C2: a download_pdf call that sees status 503 at every attempt makes at
\* most 6 attempts, returns False and writes no file, and the URL gets no
\* row in results.
C2_Exhausted503 ==
    /\ [](hist.attempts <= 6)
    /\ [][hist'.fetched # hist.fetched /\ hist'.only503[i] => fs' = fs]_vars
    /\ [](\A k \in Positions :
            hist.only503[k] /\ hist.fetched[k] # "none" =>
                /\ hist.fetched[k] = "False"
                /\ ~hist.wrote[k]
                /\ hist.rows[k] = 0)

\* the call for the only URL has ended after six answers 503
C2_Witness ==
    /\ Len(urls) = 1 /\ pc = "sleep"
    /\ hist.only503[1] /\ hist.fetched[1] = "False"
    /\ hist.attempts = 6
    /\ fs = NoFiles

\* the transient conditions the fetcher is meant to retry
IsTransientCondition(o) ==
    \/ o.kind \in {"Timeout", "ConnectionError"}
    \/ o.kind = "status" /\ o.code \in {429, 500, 502, 503, 504}

\* C3: within one download_pdf call an attempt follows another one only if
\* that one ended in a transient condition (status 429, 500, 502, 503 or
\* 504, a connection error, a timeout); once an attempt has ended otherwise,
\* as with status 404, the call has returned False, and it has made exactly
\* one attempt when that was its first.
C3_RetryOnlyWhenTransient ==
    /\ [][hist.attempts >= 1 /\ hist'.attempts > hist.attempts
            => IsTransientCondition(hist.last)]_vars
    /\ [](hist.last.kind = "status" /\ hist.last.code = 404 =>
            pc = "sleep" /\ hist.fetched[i] = "False")

\* a first attempt answered 404: the call is over, False, after one attempt
C3_Witness ==
    /\ hist.last = Status(404)
    /\ hist.attempts = 1
    /\ pc = "sleep" /\ hist.fetched[i] = "False"

\* a second attempt was made (after a transient condition)
C3_WitnessRetry == hist.attempts = 2 /\ hist.last = Status(404)

ExpectedHeader(v) ==
    IF v = "v27" THEN <<"filename", "citations">>
    ELSE <<"url", "citation", "context">>

\* C9: a run that ends with no result has written no file, or a file that
\* is exactly the header row of the variant's columns.
C9_EmptyResultHasHeader ==
    pc = "done" /\ results = <<>> =>
        \/ ~outFile.written
        \/ outFile.header = ExpectedHeader(variant) /\ outFile.rows = <<>>

\* C10: when the extraction of the current URL's file hit an error (the file
\* cannot be opened, or a page fails), the text is empty and the URL
\* contributes no citation.
C10_FailedExtractionIsEmpty ==
    i \in Positions /\ hist.extractCalls[i] >= 1 /\ hist.extractFailed =>
        /\ text = <<>>
        /\ hist.rows[i] = 0

----------------------------------------------------------------------------
(* Properties of find_us_code_citations (checked under SpecMatch).         *)

pattern(v) == IF v = "v27" THEN pattern_27 ELSE pattern_28

\* the offsets of t at which the pattern matches, and where it ends there
Starts(v, t) == {p \in 0..Len(t) : MatchEnd(<<pattern(v)>>, t, p) # NoEnd}
EndOf(v, t, p) == MatchEnd(<<pattern(v)>>, t, p)

\* C is the set of the non-overlapping occurrences, taken from the left: an
\* occurrence is in C exactly if it does not start inside an earlier one of C
IsLeftmostSelection(v, t, C) ==
    \A p \in Starts(v, t) :
        p \in C <=> ~\E q \in C : q < p /\ p < EndOf(v, t, q)

Cite42 == <<"4", "2", " ", "U", ".", "S", ".", "C", ".", " ", "1", "9", "8", "3">>

\* C4: the matches are the non-overlapping occurrences of the pattern, one
\* match per occurrence, in the order of the text, repeated citations
\* included; the text with "42 U.S.C. 1983" twice gives that match twice.
C4_OneMatchPerOccurrence ==
    pc = "found" =>
        /\ \E C \in SUBSET Starts(variant, text) :
              /\ IsLeftmostSelection(variant, text, C)
              /\ Len(citations) = Cardinality(C)
              /\ \A p \in C :
                    citations[1 + Cardinality({q \in C : q < p})]
                        = SubSeq(text, p + 1, EndOf(variant, text, p))
        /\ (text = DuplicateText => citations = <<Cite42, Cite42>>)

\* the same citation found twice
C4_Witness ==
    /\ pc = "found"
    /\ Len(citations) >= 2
    /\ citations[1] = citations[2]

\* whether text t holds the characters cs one after the other somewhere
Contains(t, cs) ==
    \E p \in 0..(Len(t) - Len(cs)) : \A j \in 1..Len(cs) : t[p + j] = cs[j]

\* the same, a blank of cs standing for any one whitespace character
ContainsWs(t, cs) ==
    \E p \in 0..(Len(t) - Len(cs)) :
        \A j \in 1..Len(cs) :
            IF cs[j] = " " THEN t[p + j] \in Whitespace ELSE t[p + j] = cs[j]

LeadInTokens ==
    {<<"U", ".", "S", ".", "C", ".">>, <<"U", "S", "C">>, <<"U", ".", "S", ".", " ", "C", "o", "d", "e">>, <<"U", ".", "S", ".", " ", "C", ".">>,
     <<"U", "S", " ", "C", "o", "d", "e">>, <<"U", "n", "i", "t", "e", "d", " ", "S", "t", "a", "t", "e", "s", " ", "C", "o", "d", "e">>}

\* C5 as stated: a text that holds none of the lead-in tokens gives no match.
C5_NoLeadInNoMatch ==
    pc = "found" /\ (\A tok \in LeadInTokens : ~Contains(text, tok))
        => citations = <<>>

\* C5 as amended: a text that holds none of the lead-in tokens, a blank of a
\* token standing for any one whitespace character, gives no match.
C5_NoLeadInUpToWhitespaceNoMatch ==
    pc = "found" /\ (\A tok \in LeadInTokens : ~ContainsWs(text, tok))
        => citations = <<>>

\* a text with a title number and "US" and "Code", but no lead-in token
C5_Witness ==
    /\ pc = "found"
    /\ \A tok \in LeadInTokens : ~ContainsWs(text, tok)
    /\ Contains(text, <<"7", " ", "U", "S">>) /\ Contains(text, <<"C", "o", "d", "e">>)
    /\ citations = <<>>

CiteUSC == <<"7", " ", "U", ".", "S", ".", "C", ".", " ", "1", "3", "6">>
CiteChapter == <<"c", "h", "a", "p", "t", "e", "r", " ", "5", " ", "o", "f", " ", "t", "i", "t", "l", "e", " ", "7", ",", " ", "U", "n", "i", "t", "e", "d", " ", "S", "t", "a", "t", "e", "s", " ", "C", "o", "d", "e">>

InSeq(x, xs) == \E j \in 1..Len(xs) : xs[j] = x

\* C8 as stated: the scenario text gives a match for "7 U.S.C. 136" and one
\* for "chapter 5 of title 7, United States Code".
C8_ScenarioBothForms ==
    pc = "found" /\ text = ScenarioText =>
        InSeq(CiteUSC, citations) /\ InSeq(CiteChapter, citations)

\* C8 as amended: the 2024-11-27 matcher gives exactly these two matches,
\* the 2024-11-28 matcher "7 U.S.C. 136" alone.
C8_ScenarioByVariant ==
    pc = "found" /\ text = ScenarioText =>
        citations = IF variant = "v27" THEN <<CiteUSC, CiteChapter>>
                    ELSE <<CiteUSC>>

C8_Witness ==
    /\ pc = "found" /\ text = ScenarioText /\ variant = "v27"
    /\ Len(citations) = 2

----------------------------------------------------------------------------
(* Properties of normalize_text (SpecNorm) and get_context (SpecCtx).      *)

\* C6: the context is the match with at most 40 characters of the text
\* before it and at most 40 after it, all of them characters of the text:
\* none before a match at offset 0, none after a match at the end.
C6_ContextWindow ==
    pc = "context" =>
        \E a \in 0..match[1] : \E b \in match[2]..Len(text) :
            /\ context = SubSeq(text, a + 1, b)
            /\ match[1] - a <= 40
            /\ b - match[2] <= 40
            /\ (match[1] = 0 => a = 0)
            /\ (match[2] = Len(text) => b = Len(text))

\* a text of length 50 with the match at its very end, and more than 40
\* characters before a match elsewhere
C6_Witness ==
    /\ pc = "context"
    /\ Len(text) = 50 /\ match[2] = 50
    /\ context = text

C6_WitnessClipped ==
    /\ pc = "context"
    /\ match[1] > 40 /\ Len(text) - match[2] > 40
    /\ Len(context) < Len(text)

\* C7: a normalized text holds no em-dash and no whitespace but single
\* blanks, and normalizing it again changes nothing.
C7_NormalizeIdempotent ==
    /\ pc \in {"normalized", "renormalized"} =>
          \A j \in 1..Len(text) :
              /\ text[j] # EmDash
              /\ text[j] \in Whitespace =>
                    /\ text[j] = " "
                    /\ (j < Len(text) => text[j + 1] \notin Whitespace)
    /\ pc = "renormalized" => text = raw

\* a text with a run of whitespace and an em-dash, normalized once
C7_Witness ==
    /\ pc = "normalized"
    /\ raw = <<"\n", "\t", EmDash, "a">>
    /\ text = <<" ", "-", "a">>

C7_WitnessTwice ==
    /\ pc = "renormalized"
    /\ text = <<" ", "-", "a">>

----------------------------------------------------------------------------
(* The result list, the order of the loop and the output file.             *)

IsPrefix(s, t) == Len(s) <= Len(t) /\ SubSeq(t, 1, Len(s)) = s

\* C11: The result list is append-only: every step of a run leaves the value
\* the list had before the step as a prefix of its new value, so no record
\* already in it is modified, removed or reordered.
C11_AppendOnly == [][IsPrefix(results, results')]_vars

\* the records of a second URL have been appended to those of a first
C11_Witness ==
    /\ pc = "sleep" /\ i = 2
    /\ hist.rows[1] >= 1 /\ hist.rows[2] >= 1
    /\ Len(results) = hist.rows[1] + hist.rows[2]
    /\ results[1] # results[Len(results)]

\* an exception left download_pdf (2024-11-28: the file could not be written)
DownloadRaised == \E k \in Positions : hist.fetched[k] = "raised"

\* C12: Whatever the URL list and however each URL ends (fetched, transient
\* failure, non-retryable failure, retries used up, extraction failure, no
\* citation), download_pdf is called for the URLs of the list in list order,
\* once each, and the run then reaches the write step and ends; none of
\* these failures ends the run early.
C12_EveryUrlOnceThenWrite ==
    /\ [](IsPrefix(hist.called, urls))
    /\ [](pc \in {"write", "done"} => hist.called = urls)
    /\ <>(DownloadRaised \/ (pc = "done" /\ hist.called = urls))

\* a run of two URLs has ended: the first was not fetched, the extraction
\* of the second failed
C12_Witness ==
    /\ pc = "done" /\ Len(urls) = 2 /\ hist.called = urls
    /\ hist.fetched[1] = "False" /\ hist.fetched[2] = "True"
    /\ hist.extractFailed

\* C13: The output file is written at most once per run, and only after the
\* last URL of the list has been processed: while the loop over the URLs is
\* not over no output file has been written, so a run that stops inside the
\* loop leaves none.
C13_WrittenOnceAfterLoop ==
    /\ [](pc # "done" => outFile = NoFile)
    /\ [][outFile' # outFile =>
            /\ pc = "write" /\ pc' = "done" /\ outFile = NoFile
            /\ i = Len(urls) + 1 /\ hist.called = urls]_vars

\* the file has been written at the end of a run of two URLs, with records
C13_Witness ==
    /\ pc = "done" /\ outFile.written /\ Len(urls) = 2
    /\ outFile.rows = results /\ results # <<>>

\* C14: At the end of a run, 2024-11-28 has written the output CSV if and
\* only if results holds at least one row, and with results empty it has
\* written no file and logged a warning; 2024-11-27 has written the output
\* CSV in every run that reached the end of the list, also with results
\* empty.  A file that is written holds the rows of results.
C14_WrittenIffRows ==
    pc = "done" =>
        /\ variant = "v28" =>
                /\ outFile.written <=> results # <<>>
                /\ hist.warned <=> results = <<>>
        /\ variant = "v27" => outFile.written /\ ~hist.warned
        /\ outFile.written => outFile.rows = results

\* 2024-11-28 ends a run of two URLs with no row: no file, a warning
C14_Witness ==
    /\ pc = "done" /\ variant = "v28" /\ Len(urls) = 2 /\ results = <<>>
    /\ outFile = NoFile /\ hist.warned

\* 2024-11-27 ends a run of two URLs with no record: the file is written
C14_WitnessAlways ==
    /\ pc = "done" /\ variant = "v27" /\ Len(urls) = 2 /\ results = <<>>
    /\ outFile.written

----------------------------------------------------------------------------
(* Properties of the rows of 2024-11-28 (checked under SpecRows).          *)

\* the literal string c stands at offset p of t
Occurs(c, t, p) == p + Len(c) <= Len(t) /\ SubSeq(t, p + 1, p + Len(c)) = c

\* the offset of the leftmost occurrence of c in t
FirstOccurrence(c, t) ==
    CHOOSE p \in 0..Len(t) :
        Occurs(c, t, p) /\ \A q \in 0..(p - 1) : ~Occurs(c, t, q)

\* the stripped window of context_length characters around t[a:b]
Window(t, a, b) ==
    LET lo == IF a - context_length > 0 THEN a - context_length ELSE 0
        hi == IF b + context_length < Len(t) THEN b + context_length
              ELSE Len(t)
    IN  strip(SubSeq(t, lo + 1, hi))

\* C15: In 2024-11-28 every row of a document carries, as its context, the
\* window around the first (leftmost) occurrence of its literal citation
\* string in the normalized text; so the rows of a citation string that is
\* returned more than once all carry the same context, also those that
\* report a later occurrence.
C15_ContextOfFirstOccurrence ==
    pc = "sleep" =>
        /\ \A r \in 1..Len(results) :
              LET c == results[r].citation
                  p == FirstOccurrence(c, text)
              IN  results[r].context = Window(text, p, p + Len(c))
        /\ \A a, b \in 1..Len(results) :
              results[a].citation = results[b].citation
                  => results[a].context = results[b].context

\* two rows with the same citation string, and the window around the second
\* occurrence is not the context the second row carries
C15_Witness ==
    /\ pc = "sleep" /\ Len(results) = 2 /\ Len(citations) = 2
    /\ results[1].citation = results[2].citation
    /\ LET spans == finditer(pattern_28, text, 0)
       IN  /\ Len(spans) = 2
           /\ results[2].context # Window(text, spans[2][1], spans[2][2])
           /\ results[2].context = Window(text, spans[1][1], spans[1][2])

\* C16: In 2024-11-28 every citation find_us_code_citations returns for a
\* document gets exactly one row {url, citation, context}, whose url is the
\* URL being processed: the rows appended for the document are as many as
\* the matches in its normalized text, in their order, and `if match` drops
\* none.
C16_OneRowPerOccurrence ==
    pc = "sleep" =>
        /\ Len(citations) = Len(finditer(pattern_28, text, 0))
        /\ Len(results) = Len(citations)
        /\ hist.rows[i] = Len(citations)
        /\ \A r \in 1..Len(results) :
              /\ DOMAIN results[r] = {"url", "citation", "context"}
              /\ results[r].url = urls[i]
              /\ results[r].citation = citations[r]

\* a document with the same citation twice, and one with two citations, have
\* got their two rows
C16_Witness ==
    /\ pc = "sleep" /\ Len(citations) = 2 /\ Len(results) = 2
    /\ citations[1] = CtxCite /\ citations[2] \in {CtxCite, Cite17}
    /\ results[2].url = urls[1]

----------------------------------------------------------------------------
(* Properties of the local files and of extraction.                        *)

\* the percent-decoding of a last URL part: of those of UrlSet, one holds an
\* escape, %20
Decoded(name) == IF name = "4791.6%20.pdf" THEN "4791.6 .pdf" ELSE name

\* the last part of a path
NameOf(path) == path[Len(path)]

\* C17: The local file of a URL is named by the URL's last path segment,
\* percent-decoded: the document of a URL that ends in "/4791.6%20.pdf" is
\* stored under the name "4791.6 .pdf", and the document of a URL without
\* percent escapes under its last path segment unchanged.
C17_FilenamePercentDecoded ==
    \A k \in Positions :
        hist.wrote[k] =>
            \E path \in DOMAIN fs : NameOf(path) = Decoded(urls[k][Len(urls[k])])

\* C18: extract_text_from_pdf returns the texts of the pages in page order
\* with a separator (a space or a newline) between the texts of consecutive
\* pages, so that the last token of a page and the first token of the next
\* are not fused.
C18_PagesSeparated ==
    pc = "match" /\ ~hist.extractFailed =>
        LET pages == fs[filepath(variant, urls[i])].pages
        IN  \E sep \in {" ", "\n"} :
                text = join(<<sep>>, NonEmptyTexts(pages, 1))

----------------------------------------------------------------------------
(* The lead-in forms of the 2024-11-27 pattern (checked under SpecMatch).  *)

\* a lead-in form of the 2024-11-27 pattern starts at a word boundary of t
HasLeadIn(t) ==
    \E p \in 0..Len(t) :
        IsWordBoundary(t, p) /\ MatchEnd(<<Alt(LeadIns_27)>>, t, p) # NoEnd

\* C19: The 2024-11-27 matcher recognizes a lead-in form whether or not a
\* section token follows it: for every text that holds a lead-in form
\* starting at a word boundary it returns at least one match, also when the
\* lead-in is followed by punctuation, by a non-word symbol or by the end of
\* the text.
C19_LeadInAloneMatches ==
    pc = "found" /\ variant = "v27" /\ HasLeadIn(text) => citations # <<>>

----------------------------------------------------------------------------
(* Extraction and matching per URL (checked under Spec).                   *)

\* the iteration of the k-th URL has reached its last statement
IterationOver(k) == k < i \/ (k = i /\ pc = "sleep")

\* C20 as stated: for every URL whose fetch returned True,
\* extract_text_from_pdf is called exactly once and find_us_code_citations
\* is called exactly once in the iteration of that URL, and neither is
\* repeated.
C20_ExtractAndMatchOnce ==
    \A k \in Positions :
        /\ hist.extractCalls[k] <= 1 /\ hist.matchCalls[k] <= 1
        /\ IterationOver(k) /\ hist.fetched[k] = "True" =>
               hist.extractCalls[k] = 1 /\ hist.matchCalls[k] = 1

\* C20 as amended: for every URL whose fetch returned True,
\* extract_text_from_pdf is called exactly once in the iteration of that URL
\* and find_us_code_citations at most once: exactly once in 2024-11-27, and
\* in 2024-11-28 once if the extracted text is not empty and not at all if
\* it is empty; neither is repeated.
C20_ExtractOnceMatchUnlessEmpty ==
    \A k \in Positions :
        /\ hist.extractCalls[k] <= 1 /\ hist.matchCalls[k] <= 1
        /\ IterationOver(k) /\ hist.fetched[k] = "True" =>
               /\ hist.extractCalls[k] = 1
               /\ hist.matchCalls[k] =
                      IF variant = "v28" /\ hist.textEmpty[k] THEN 0 ELSE 1

\* 2024-11-28 fetched a document, extracted an empty text and went on
\* without calling find_us_code_citations
C20_Witness ==
    \E k \in Positions :
        /\ variant = "v28" /\ IterationOver(k) /\ hist.fetched[k] = "True"
        /\ hist.textEmpty[k]
        /\ hist.extractCalls[k] = 1 /\ hist.matchCalls[k] = 0

\* a fetched document with a text: one call of each, in either variant
C20_WitnessBoth ==
    \E k \in Positions :
        /\ IterationOver(k) /\ hist.fetched[k] = "True" /\ ~hist.textEmpty[k]
        /\ hist.extractCalls[k] = 1 /\ hist.matchCalls[k] = 1

----------------------------------------------------------------------------
(* The order of the steps (checked under Spec).                            *)

StepOrder == <<"fetch", "extract", "match", "record">>

\* the steps an iteration can consist of when it is over: a failed fetch, a
\* fetch and an extraction that gave no text (2024-11-28), or all four
FinishedTraces ==
    {<<"fetch">>, <<"fetch", "extract">>, StepOrder}

\* C21: Processing is sequential and ordered per URL: the steps of a URL
\* occur in the order fetch, extract, match, record, and the fetch of the
\* next URL does not start before every step of the URL before it, the
\* appending of its records included, has finished.
C21_StepsInOrder ==
    /\ [](IsPrefix(hist.trace, StepOrder))
    /\ [][hist'.called # hist.called =>
            /\ pc = "loop" /\ Len(hist.called) = i - 1
            /\ hist'.called = Append(hist.called, urls[i])
            /\ i > 1 => hist.trace \in FinishedTraces
            /\ \A k \in 1..(i - 1) : IterationOver(k)]_vars
    /\ [][results' # results =>
            pc = "record" /\ hist.trace = <<"fetch", "extract", "match">>]_vars
    /\ [][i' # i => pc = "sleep" /\ hist.trace \in FinishedTraces]_vars

\* the fetch of a second URL has started after the four steps of the first
C21_Witness ==
    /\ pc = "request" /\ i = 2 /\ hist.trace = <<"fetch">>
    /\ Len(hist.called) = 2
    /\ hist.extractCalls[1] = 1 /\ hist.matchCalls[1] = 1 /\ hist.rows[1] >= 1

----------------------------------------------------------------------------
(* The order and the number of the records (checked under Spec).           *)

\* the record rs[r] names the URL at position k of the list
NamesUrl(row, k) ==
    IF variant = "v27" THEN row.filename = filename(urls[k])
    ELSE row.url = urls[k]

\* C22: The result list is ordered by input position: of two rows the
\* earlier one belongs to a URL at the same or an earlier position of the
\* list; and in 2024-11-28 the rows of one URL stand in the order in which
\* their citations were found in the text of its document.
C22_OrderedByPosition ==
    /\ Len(hist.origin) = Len(results)
    /\ \A r \in 1..Len(results) : NamesUrl(results[r], hist.origin[r])
    /\ \A a, b \in 1..Len(results) :
          a < b => hist.origin[a] <= hist.origin[b]
    /\ variant = "v28" /\ pc = "sleep" /\ hist.trace = StepOrder =>
          LET found == findall(pattern_28, text)
              before == Len(results) - Len(found)
          IN  /\ before >= 0
              /\ \A j \in 1..Len(found) :
                    /\ results[before + j].citation = found[j]
                    /\ hist.origin[before + j] = i

\* 2024-11-28, at the end of a run: a row of the first URL, then the two
\* rows of the second, whose citations differ
C22_Witness ==
    /\ pc = "done" /\ variant = "v28" /\ Len(results) = 3
    /\ hist.origin = <<1, 2, 2>>
    /\ results[2].citation # results[3].citation
    /\ results[1].url # results[2].url

----------------------------------------------------------------------------
(* The pacing delay of the loop (checked under Spec).                      *)

\* C23: After each URL, whether its fetch succeeded or failed, the loop
\* makes exactly one pacing delay, drawn from the range [2, 5], before the
\* fetch of the next URL starts: no two fetches of different URLs follow
\* each other without a pacing delay between them; and the delay is made by
\* the loop, download_pdf sleeps at most where it handles an exception.
C23_OnePacingDelayPerUrl ==
    /\ [](\A k \in Positions :
            hist.paced[k] = IF k < i THEN 1 ELSE 0)
    /\ [](pc = "loop" /\ i > 1 => 2 <= hist.delay /\ hist.delay <= 5)
    /\ [][hist'.called # hist.called /\ i > 1 =>
            /\ hist.paced[i - 1] = 1
            /\ 2 <= hist.delay /\ hist.delay <= 5]_vars
    /\ [](hist.waited # 0 =>
            hist.raised \in {"Timeout", "ConnectionError"}
                /\ hist.fetched[i] = "False")

\* the delay after a failed fetch, before the fetch of the second URL
C23_Witness ==
    /\ pc = "loop" /\ i = 2 /\ Len(urls) = 2
    /\ hist.fetched[1] = "False" /\ hist.paced[1] = 1 /\ hist.delay = 5

\* the delay after a fetch that succeeded
C23_WitnessFetched ==
    /\ pc = "loop" /\ i = 2 /\ Len(urls) = 2
    /\ hist.fetched[1] = "True" /\ hist.paced[1] = 1 /\ hist.delay = 2

----------------------------------------------------------------------------
(* The file download_pdf writes (checked under Spec).                      *)

\* the failures of the request: an HTTP error status, the retries used up,
\* a timeout, a connection error
RequestFailures == {"HTTPError", "RetryError", "Timeout", "ConnectionError"}

\* C24: download_pdf changes the file at the path it is given if and only
\* if it returns True: when it returns True the file holds the body of the
\* response, in place of whatever was at that path before; whenever it
\* returns False the file is as before, neither created nor emptied nor
\* deleted.
C24_UnchangedUnlessTrue ==
    [][hist'.fetched # hist.fetched =>
        LET path == filepath(variant, urls[i])
        IN  /\ hist'.fetched[i] = "True" =>
                  path \in DOMAIN fs' /\ fs'[path] = hist'.body
            /\ hist'.fetched[i] = "False" => fs' = fs]_vars

\* C24 (amended): when download_pdf returns True the file at the path it is
\* given holds the body of the response, in place of whatever was at that
\* path before; when the request fails (HTTP error status, retries used up,
\* timeout, connection error) it returns False and the file is as before,
\* neither created nor emptied nor deleted; when the response is good and
\* the file cannot be opened or written, download_pdf does not return True
\* and the file is as before or has been emptied by open.  No other file
\* changes.
C24_FileWrittenIffTrue ==
    [][hist'.fetched # hist.fetched =>
        LET path == filepath(variant, urls[i])
        IN  /\ hist'.fetched[i] = "True" =>
                  path \in DOMAIN fs' /\ fs'[path] = hist'.body
            /\ hist'.raised \in RequestFailures =>
                  hist'.fetched[i] = "False" /\ fs' = fs
            /\ hist'.raised = "OSError" =>
                  /\ hist'.fetched[i] # "True"
                  /\ fs' = fs \/ fs' = (path :> Truncated) @@ fs
            /\ hist'.raised \in RequestFailures \cup {"OSError", "none"}
            /\ hist'.raised = "none" <=> hist'.fetched[i] = "True"
            /\ \A q \in DOMAIN fs :
                  q # path => q \in DOMAIN fs' /\ fs'[q] = fs[q]
            /\ \A q \in DOMAIN fs' : q # path => q \in DOMAIN fs]_vars

\* the second URL has the final segment of the first: its download has
\* replaced the file of the first, which held a citation
C24_Witness ==
    /\ variant = "v27" /\ pc = "extract" /\ i = 2
    /\ urls = <<Url_2022_07, Url_2021_04>>
    /\ Len(results) = 1 /\ results[1].citations # <<>>
    /\ hist.fetched[2] = "True"
    /\ fs[filepath(variant, urls[2])] = Doc(<<Page(TxtPlain)>>)

\* the request for the second URL failed: the file of the first is still there
C24_WitnessFailure ==
    /\ pc = "sleep" /\ i = 2
    /\ urls = <<Url_2022_07, Url_2021_04>>
    /\ hist.fetched[1] = "True" /\ hist.fetched[2] = "False"
    /\ hist.raised = "HTTPError"
    /\ fs[filepath(variant, urls[2])] = Doc(<<Page(TxtCite)>>)

\* 2024-11-27: the write of the second download failed after open had
\* emptied the file of the first; download_pdf returned False
C24_WitnessEmptied ==
    /\ variant = "v27" /\ pc = "sleep" /\ i = 2
    /\ urls = <<Url_2022_07, Url_2021_04>>
    /\ hist.fetched[1] = "True" /\ hist.fetched[2] = "False"
    /\ hist.raised = "OSError"
    /\ fs[filepath(variant, urls[2])] = Truncated

----------------------------------------------------------------------------
(* What the 2024-11-28 pattern needs (checked under SpecMatch).            *)

LeadIn_28 == <<"U", ".", "S", ".", "C", ".">>

\* t[a..b] is whitespace only (or empty)
Blank(t, a, b) == \A k \in a..b : t[k] \in Whitespace

\* t holds a digit, filler, "U.S.C." from position b on
HasTitleAndLeadIn(t, b) ==
    /\ b + Len(LeadIn_28) - 1 <= Len(t)
    /\ SubSeq(t, b, b + Len(LeadIn_28) - 1) = LeadIn_28
    /\ \E a \in 1..(b - 1) : t[a] \in Digit /\ Blank(t, a + 1, b - 1)

\* after the lead-in that starts at b: filler, then a digit
HasSection(t, b) ==
    \E c \in (b + Len(LeadIn_28))..Len(t) :
        t[c] \in Digit /\ Blank(t, b + Len(LeadIn_28), c - 1)

\* C25 as stated: the 2024-11-28 matcher returns a match for every text that
\* holds "<digits> U.S.C.", with any filler of whitespace, also when no
\* section token follows the lead-in.
C25_MatchesWithoutSection ==
    pc = "found" /\ variant = "v28"
        /\ (\E b \in 1..Len(text) : HasTitleAndLeadIn(text, b))
        => citations # <<>>

\* C25 (amended): the 2024-11-28 matcher returns a match exactly for the
\* texts that hold a digit, "U.S.C." and a digit with nothing or only
\* whitespace (any number of characters) between them: the filler is free,
\* the section is not optional.
C25_MatchesIffSectionFollows ==
    pc = "found" /\ variant = "v28" =>
        (citations # <<>> <=>
            \E b \in 1..Len(text) :
                HasTitleAndLeadIn(text, b) /\ HasSection(text, b))

\* a citation found through several whitespace characters
C25_Witness ==
    /\ pc = "found" /\ variant = "v28" /\ text = WideFillerText
    /\ citations = <<SubSeq(WideFillerText, 5, 24)>>

\* a citation found without any filler
C25_WitnessNoFiller ==
    /\ pc = "found" /\ variant = "v28" /\ text = NoFillerText
    /\ citations = <<SubSeq(NoFillerText, 5, 15)>>

----------------------------------------------------------------------------
(* The file extract_text_from_pdf reads (checked under Spec).              *)

\* C26: Whenever extract_text_from_pdf is called for a URL, the file at the
\* local path holds what download_pdf received for that URL in the same
\* iteration, also when an earlier URL of the list or an earlier run left a
\* file at that path (URLs with the same final segment share a path); the
\* text that is matched and recorded for a URL is the text of that content.
C26_ExtractReadsOwnDownload ==
    LET path == filepath(variant, urls[i])
    IN  /\ pc = "extract" =>
              /\ hist.fetched[i] = "True" /\ hist.last = Status(200)
              /\ hist.body \in Documents
              /\ path \in DOMAIN fs /\ fs[path] = hist.body
        /\ pc = "match" =>
              text = extract_text_from_pdf(variant, path :> hist.body, path)

\* the second URL has the final segment of the first, whose file held a
\* citation; the second download brought a document without one, and that
\* is what is about to be read
C26_Witness ==
    /\ pc = "extract" /\ i = 2
    /\ urls = <<Url_2022_07, Url_2021_04>>
    /\ hist.fetched[1] = "True" /\ hist.rows[1] > 0
    /\ hist.body = Doc(<<Page(TxtPlain)>>)
    /\ fs[filepath(variant, urls[2])] = Doc(<<Page(TxtPlain)>>)

\* the download of the second URL failed while the file of the first is at
\* its path: the file is not read again
C26_WitnessNotRead ==
    /\ pc = "sleep" /\ i = 2
    /\ urls = <<Url_2022_07, Url_2021_04>>
    /\ hist.fetched[1] = "True" /\ hist.fetched[2] = "False"
    /\ filepath(variant, urls[2]) \in DOMAIN fs
    /\ hist.extractCalls[2] = 0 /\ hist.rows[2] = 0

----------------------------------------------------------------------------
(* The records of 2024-11-27 at the end of the run (checked under Spec).   *)

\* the positions of the URLs whose download returned True
Fetched == {k \in Positions : hist.fetched[k] = "True"}

\* C27: In 2024-11-27, once the loop is over, results holds exactly one
\* record {filename, citations} for each URL whose download returned True,
\* also when its citation list is empty or its extraction failed, and none
\* for a URL whose download returned False: len(results) is the number of
\* successful fetches, each record carries the final segment of its URL,
\* and so the records of two URLs with the same final segment carry the
\* same filename.
C27_OneRecordPerFetchedUrl ==
    variant = "v27" /\ pc \in {"write", "done"} =>
        /\ \A k \in Positions :
              /\ hist.fetched[k] \in {"True", "False"}
              /\ hist.rows[k] = IF k \in Fetched THEN 1 ELSE 0
        /\ Len(results) = Cardinality(Fetched)
        /\ Len(hist.origin) = Len(results)
        /\ \A j \in 1..Len(results) :
              /\ hist.origin[j] \in Fetched
              /\ DOMAIN results[j] = {"filename", "citations"}
              /\ results[j].filename = filename(urls[hist.origin[j]])
        /\ \A j, k \in 1..Len(results) :
              /\ j # k => hist.origin[j] # hist.origin[k]
              /\ filename(urls[hist.origin[j]]) = filename(urls[hist.origin[k]])
                    => results[j].filename = results[k].filename

\* two URLs with the same final segment, both fetched: two records with the
\* same filename, the second for a document without text
C27_Witness ==
    /\ variant = "v27" /\ pc = "done"
    /\ urls = <<Url_2022_07, Url_2021_04>>
    /\ Len(results) = 2
    /\ results[1].filename = results[2].filename
    /\ results[1].citations # <<>> /\ results[2].citations = <<>>
    /\ hist.textEmpty[2]

\* one download returned False: one record for two URLs
C27_WitnessOneFailed ==
    /\ variant = "v27" /\ pc = "done" /\ Len(urls) = 2
    /\ hist.fetched[1] = "False" /\ hist.fetched[2] = "True"
    /\ Len(results) = 1 /\ hist.origin = <<2>>

----------------------------------------------------------------------------
(* Exceptions inside download_pdf (checked under Spec).                    *)

\* C28: download_pdf reports every outcome as a boolean and lets no
\* exception escape to the loop: whatever is raised inside it, a network or
\* HTTP error or a failure to open or write the file after a good response,
\* makes it return False, and the run goes on with the pacing delay.
C28_NothingEscapes ==
    /\ pc # "crashed"
    /\ \A k \in Positions : hist.fetched[k] \in {"none", "True", "False"}
    /\ hist.raised # "none" => hist.fetched[i] = "False" /\ pc = "sleep"

====
